---- MODULE Spec2Model ----
(***************************************************************************)
(* Model of the ObserverNet voting core (apps/api): vote-token issuance,   *)
(* ballot submission, identity-verification status updates and access-code *)
(* consumption.  The HTTP handlers are async coroutines running against a  *)
(* READ COMMITTED database, so every handler is split at the awaits that   *)
(* separate what it reads from what it commits; several handlers may be    *)
(* in flight at once (one slot per in-flight request).                     *)
(***************************************************************************)
EXTENDS Integers, Sequences, FiniteSets, Bags, TLC

(* ------------------------------ bounds --------------------------------- *)
NumVoters == 1
MaxTokens == 2
MaxClock == 2
MaxOps == 3
MaxSeqOps == 6
MaxCodes == 1
MaxChain == 2
MaxCommitments == 2
NumNodes == 3
MaxMixBallots == 2
threshold == 2
MaxTallyBallots == 2

(* ------------------------- program constants --------------------------- *)
\* expires_at = now + timedelta(hours=1); the clock of the model counts hours
TokenTTL == 1

NULL == -1

ElectionId == "e1"
ElectionIds == {"e1", "eX"}
Voters == 1..NumVoters
\* voter hashes a request may carry: the registered ones and an unknown one
VoterHashes == 0..NumVoters
\* two handler invocations may be in flight at once
Slots == {1, 2}
\* raw secrets a client may present: every issued one and one never issued
RawTokens == 1..(MaxTokens + 1)

\* contests of the election and the options of each
Contests == {"c1"}
OptionsOf(c) == IF c = "c1" THEN {"o1", "o2"} ELSE {}
Sel(c, o) == [contestId |-> c, optionId |-> o]
\* payload.selections values a client may send
SelectionInputs ==
  { <<>>, <<Sel("c1", "o1")>>, <<Sel("cX", "o1")>>, <<Sel("c1", "oX")>>,
    <<Sel("c1", "o1"), Sel("c1", "o2")>> }

VARIABLES
  now,        \* datetime.utcnow(), in hours
  election,   \* the Election row
  voters,     \* Voter.status per voter id
  codes,      \* voter-scoped AccessCode rows, in insertion order
  tokens,     \* VoteToken rows, in insertion order (row i has id i)
  ballots,    \* Ballot rows, in insertion order
  slots,      \* in-flight handler invocations, and the response just returned
  audit,      \* AuditLog rows of the election, in insertion order
  ops,        \* number of requests and events received so far
  mixnet      \* the mix-net service: the cascade run and its result

vars == <<now, election, voters, codes, tokens, ballots, slots, audit, ops, mixnet>>

\* SHA-256 of the raw token: injective, and never equal to a raw token
hash_vote_token(raw) == <<"sha256", raw>>

Idle ==
  [op |-> "idle", pc |-> "idle", code |-> 0, now |-> 0, voter |-> 0, raw |-> 0,
   sel |-> <<>>, version |-> 0, prev |-> 0, had |-> FALSE]

\* a finished invocation: the response code, the voter a token request was
\* for, and whether what the call asked for already existed when it began
Done(op, code, v, had) ==
  [Idle EXCEPT !.op = op, !.pc = "done", !.code = code, !.voter = v, !.had = had]

Free(s) == slots[s].pc \in {"idle", "done"}

\* an invocation has no identity of its own: a new one takes the first free slot
FirstFree(s) == Free(s) /\ \A r \in Slots : Free(r) => s <= r

\* a response is returned to its client once: the record of a finished
\* invocation is visible in the state its last step leads to, and gone after
Deliver(sl) == [s \in Slots |-> IF sl[s].pc = "done" THEN Idle ELSE sl[s]]

TokenIds == 1..Len(tokens)
BallotIds == 1..Len(ballots)

\* the mix-net service before any cascade run
NoCascade ==
  [pc |-> "idle", nodes |-> 0, input |-> <<>>, current |-> <<>>, proofs |-> <<>>, result |-> <<>>,
   tampered |-> FALSE, verdict |-> "none"]

Init ==
  /\ now = 0
  /\ \E cfg \in {<<FALSE, NULL>>, <<TRUE, NULL>>, <<TRUE, 0>>} :
       election = [status |-> "ACTIVE", votingStartAt |-> 0, votingEndAt |-> MaxClock - 1,
                   allowVoteChange |-> cfg[1], voteChangeDeadline |-> cfg[2]]
  /\ voters = [v \in Voters |-> "PENDING"]
  /\ codes = <<>>
  /\ tokens = <<>>
  /\ ballots = <<>>
  /\ audit = <<>>
  /\ slots = [s \in Slots |-> Idle]
  /\ ops = 0
  /\ mixnet = NoCascade

(* ------------------------------ audit log ------------------------------ *)
\* SHA-256 of a text: injective, one value per text
sha256(text) == <<"sha256", text>>

\* no hash: None, or the empty string the hash function replaces it by
NoHash == <<>>

\* `x or ""` and `x or {}`: None (NULL) is replaced by the empty value (0)
OrEmpty(x) == IF x = NULL THEN 0 ELSE x

\* the audit hash function leaving the details out of the hashed object
create_audit_chain_hash_NoDetails(previous_hash, action, resource, resource_id, timestamp, details) ==
  sha256([previousHash |-> previous_hash, action |-> action, resource |-> resource,
          resourceId |-> OrEmpty(resource_id), timestamp |-> timestamp])
\* the hash of an audit entry: SHA-256 of the JSON object of the six fields,
\* keys sorted, an absent resource id or details hashed as the empty value
create_audit_chain_hash(previous_hash, action, resource, resource_id, timestamp, details) ==
  sha256([previousHash |-> previous_hash, action |-> action, resource |-> resource,
          resourceId |-> OrEmpty(resource_id), timestamp |-> timestamp,
          details |-> OrEmpty(details)])

\* hash of the most recent AuditLog row of the election
get_last_audit_hash == IF audit = <<>> THEN NoHash ELSE audit[Len(audit)].hash

\* the AuditLog row create_audit_entry adds: chained to the last row
create_audit_entry(action, resource, resource_id, details) ==
  [action |-> action, resource |-> resource, resourceId |-> resource_id,
   timestamp |-> now, details |-> OrEmpty(details), previousHash |-> get_last_audit_hash,
   hash |-> create_audit_chain_hash(get_last_audit_hash, action, resource, resource_id,
                                    now, OrEmpty(details))]

(* ------------------------------ the clock ------------------------------ *)
Tick ==
  /\ now < MaxClock
  /\ now' = now + 1
  /\ slots' = Deliver(slots)
  /\ UNCHANGED <<election, voters, codes, tokens, ballots, ops, audit, mixnet>>

(* -------------------- request_vote_token (voting.py) ------------------- *)
\* rows of the "existing unused token" query
ActiveTokens(v, t) ==
  { i \in TokenIds : tokens[i].voterId = v /\ tokens[i].status = "ISSUED"
                     /\ tokens[i].expiresAt > t }

\* rows of the "previous token" query
TokensOf(v) == { i \in TokenIds : tokens[i].voterId = v }

\* the row a query ordered by version desc returns first
MaxVersionToken(S) == CHOOSE i \in S : \A j \in S : tokens[j].version <= tokens[i].version

\* the voter gate without the election's vote-change policy
VoterGate_NoPolicy(vs, t) ==
  IF vs = "BLOCKED" THEN 403
  ELSE IF vs = "REJECTED" THEN 403
  ELSE IF vs = "VOTED" /\ election.voteChangeDeadline # NULL
          /\ t > election.voteChangeDeadline THEN 409
  ELSE 0

\* status code of the voter gate (0: passed)
VoterGate(vs, t) ==
  IF vs = "BLOCKED" THEN 403
  ELSE IF vs = "REJECTED" THEN 403
  ELSE IF vs = "VOTED" /\ ~election.allowVoteChange THEN 409
  ELSE IF vs = "VOTED" /\ election.voteChangeDeadline # NULL
          /\ t > election.voteChangeDeadline THEN 409
  ELSE 0

\* status code of the existing-token check; scalar_one_or_none raises
\* MultipleResultsFound (an unhandled 500) on more than one row
ExistingTokenCheck(v, t) ==
  IF Cardinality(ActiveTokens(v, t)) > 1 THEN 500
  ELSE IF ActiveTokens(v, t) # {} THEN 409
  ELSE 0

\* status code of the election checks of request_vote_token
TokenElectionCheck(e, t) ==
  IF e # ElectionId THEN 404
  ELSE IF election.status # "ACTIVE" THEN 400
  ELSE IF t < election.votingStartAt THEN 400
  ELSE IF t > election.votingEndAt THEN 400
  ELSE 0

TokenCheckCode(e, vh, t) ==
  IF TokenElectionCheck(e, t) # 0 THEN TokenElectionCheck(e, t)
  ELSE IF vh \notin Voters THEN 404
  ELSE IF VoterGate(voters[vh], t) # 0 THEN VoterGate(voters[vh], t)
  ELSE ExistingTokenCheck(vh, t)

\* lines 145-214: election, voter and existing-token reads
TokenCheck(s, e, vh) ==
  /\ FirstFree(s)
  /\ ops' = ops + 1
  /\ LET c == TokenCheckCode(e, vh, now)
         known == vh \in Voters /\ TokenElectionCheck(e, now) = 0
         r == [Idle EXCEPT !.op = "token", !.voter = IF known THEN vh ELSE 0,
                           !.had = known /\ ActiveTokens(vh, now) # {}]
     IN  IF c # 0
           THEN slots' = [Deliver(slots) EXCEPT ![s] = Done("token", c, r.voter, r.had)]
         ELSE IF voters[vh] = "VOTED"
           THEN slots' = [Deliver(slots) EXCEPT ![s] = [r EXCEPT !.pc = "prev", !.now = now]]
         ELSE slots' = [Deliver(slots) EXCEPT ![s] = [r EXCEPT !.pc = "insert", !.now = now,
                                                     !.version = 1, !.prev = 0]]
  /\ UNCHANGED <<now, election, voters, codes, tokens, ballots, audit, mixnet>>

\* lines 220-233: the previous-token query of a vote change
TokenPrev(s) ==
  /\ slots[s].op = "token" /\ slots[s].pc = "prev"
  /\ LET S == TokensOf(slots[s].voter)
     IN  IF Cardinality(S) > 1
           THEN slots' = [Deliver(slots) EXCEPT ![s] = Done("token", 500, slots[s].voter, slots[s].had)]
         ELSE IF S = {}
           THEN slots' = [Deliver(slots) EXCEPT ![s].pc = "insert", ![s].version = 1, ![s].prev = 0]
         ELSE slots' = [Deliver(slots) EXCEPT ![s].pc = "insert",
                                     ![s].version = tokens[MaxVersionToken(S)].version + 1,
                                     ![s].prev = MaxVersionToken(S)]
  /\ UNCHANGED <<now, election, voters, codes, tokens, ballots, ops, audit, mixnet>>

\* the AuditLog row request_vote_token adds for token row id: no previousHash,
\* and the hash of a text made of the row id and the time only
TokenAudit(s, id) ==
  [action |-> "vote.token_issued", resource |-> "VoteToken", resourceId |-> id,
   timestamp |-> slots[s].now, details |-> slots[s].version, previousHash |-> NoHash,
   hash |-> sha256([text |-> "token_issued", id |-> id, timestamp |-> slots[s].now])]

NewToken(s) ==
  [voterId |-> slots[s].voter, status |-> "ISSUED", expiresAt |-> slots[s].now + TokenTTL,
   version |-> slots[s].version, previousTokenId |-> slots[s].prev]

\* lines 235-267: insert the VoteToken row and commit
TokenCommit(s) ==
  /\ slots[s].op = "token" /\ slots[s].pc = "insert"
  /\ Len(tokens) < MaxTokens
  /\ tokens' = Append(tokens, NewToken(s))
  /\ slots' = [Deliver(slots) EXCEPT ![s] = Done("token", 201, slots[s].voter, slots[s].had)]
  /\ audit' = Append(audit, TokenAudit(s, Len(tokens) + 1))
  /\ UNCHANGED <<now, election, voters, codes, ballots, ops, mixnet>>

(* ----------------------- submit_ballot (voting.py) ---------------------- *)
\* rows of the VoteToken lookup by (tokenHash, electionId); every token of
\* the model belongs to election ElectionId and row i stores hash_vote_token(i)
TokensByHash(h, e) == { i \in TokenIds : hash_vote_token(i) = h /\ e = ElectionId }

BallotsByHash(h) == { b \in BallotIds : ballots[b].tokenHash = h }

\* the token validation answering a consumed credential like an unknown one
SubmitTokenCheck_Unauthorized(tk, t) ==
  IF tk.status # "ISSUED" THEN 401
  ELSE IF tk.expiresAt < t THEN 401
  ELSE 0

\* status code of the token validation (0: passed), lines 303-313
SubmitTokenCheck(tk, t) ==
  IF tk.status # "ISSUED" THEN 409
  ELSE IF tk.expiresAt < t THEN 401
  ELSE 0

\* status code of the election checks of submit_ballot, lines 321-328
SubmitElectionCheck(t) ==
  IF election.status # "ACTIVE" THEN 400
  ELSE IF t < election.votingStartAt \/ t > election.votingEndAt THEN 400
  ELSE 0

\* status code of the selection validation, lines 331-359
SelectionCheck(sel) ==
  IF sel = <<>> THEN 400
  ELSE IF \E k \in 1..Len(sel) :
            \/ sel[k].contestId \notin Contests
            \/ sel[k].optionId \notin OptionsOf(sel[k].contestId) THEN 400
  ELSE 0

SubmitCheckCode(e, raw, sel, t) ==
  LET S == TokensByHash(hash_vote_token(raw), e)
  IN  IF S = {} THEN 401
      ELSE LET tk == tokens[CHOOSE i \in S : TRUE]
           IN  IF SubmitTokenCheck(tk, t) # 0 THEN SubmitTokenCheck(tk, t)
               ELSE IF SubmitElectionCheck(t) # 0 THEN SubmitElectionCheck(t)
               ELSE SelectionCheck(sel)

\* the validation marking the credential USED before it checks the selections
SubmitValidate_ConsumesFirst(s, e, raw, sel) ==
  /\ FirstFree(s)
  /\ ops' = ops + 1
  /\ LET c == SubmitCheckCode(e, raw, sel, now)
         S == TokensByHash(hash_vote_token(raw), e)
         r == [Idle EXCEPT !.op = "submit",
                           !.had = S # {} /\ BallotsByHash(hash_vote_token(raw)) # {}]
     IN  /\ IF c # 0
               THEN slots' = [Deliver(slots) EXCEPT ![s] = Done("submit", c, 0, r.had)]
             ELSE slots' = [Deliver(slots) EXCEPT ![s] = [r EXCEPT !.pc = "dupcheck", !.now = now,
                                                         !.raw = raw, !.sel = sel]]
         /\ IF c = 400 /\ S # {}
               THEN tokens' = [tokens EXCEPT ![CHOOSE i \in S : TRUE].status = "USED"]
             ELSE tokens' = tokens
  /\ UNCHANGED <<now, election, voters, codes, ballots, audit, mixnet>>

\* lines 290-380: token, election and selection validation
SubmitValidate(s, e, raw, sel) ==
  /\ FirstFree(s)
  /\ ops' = ops + 1
  /\ LET c == SubmitCheckCode(e, raw, sel, now)
         S == TokensByHash(hash_vote_token(raw), e)
         r == [Idle EXCEPT !.op = "submit",
                           !.had = S # {} /\ BallotsByHash(hash_vote_token(raw)) # {}]
     IN  IF c # 0
           THEN slots' = [Deliver(slots) EXCEPT ![s] = Done("submit", c, 0, r.had)]
         ELSE slots' = [Deliver(slots) EXCEPT ![s] = [r EXCEPT !.pc = "dupcheck", !.now = now, !.raw = raw,
                                                     !.sel = sel]]
  /\ UNCHANGED <<now, election, voters, codes, tokens, ballots, audit, mixnet>>

\* lines 382-393: the existing-ballot query
SubmitDupCheck(s) ==
  /\ slots[s].op = "submit" /\ slots[s].pc = "dupcheck"
  /\ IF BallotsByHash(hash_vote_token(slots[s].raw)) # {}
       THEN slots' = [Deliver(slots) EXCEPT ![s] = Done("submit", 409, 0, slots[s].had)]
     ELSE slots' = [Deliver(slots) EXCEPT ![s].pc = "commit"]
  /\ UNCHANGED <<now, election, voters, codes, tokens, ballots, ops, audit, mixnet>>

\* Ballot.version, lines 388-400
BallotVersion(tokenVersion) == IF tokenVersion > 1 THEN tokenVersion ELSE 1

\* the VoteToken row the invocation resolved its secret to
TokenOf(s) == CHOOSE i \in TokenIds : hash_vote_token(i) = hash_vote_token(slots[s].raw)

NewBallot(s) ==
  [tokenHash |-> hash_vote_token(slots[s].raw), status |-> "PENDING",
   version |-> BallotVersion(tokens[TokenOf(s)].version), votes |-> slots[s].sel,
   fabricTxId |-> NULL]

\* the AuditLog row submit_ballot adds for ballot row id: not chained either
BallotAudit(s, id) ==
  [action |-> "vote.ballot_submitted", resource |-> "Ballot", resourceId |-> id,
   timestamp |-> slots[s].now, details |-> BallotVersion(tokens[TokenOf(s)].version),
   previousHash |-> NoHash,
   hash |-> sha256([text |-> "ballot_submitted", id |-> id, timestamp |-> slots[s].now])]

\* the rows the transaction of lines 402-472 writes besides the ballot
\* the transaction without the update of the VoteToken row
MarkTokenUsed_Skip(tks, id) == tks
MarkTokenUsed(tks, id) == [tks EXCEPT ![id].status = "USED"]
MarkVoterVoted(vs, v) == [vs EXCEPT ![v] = "VOTED"]

\* lines 402-472: one transaction inserting the ballot, marking the token USED
\* and the voter VOTED; the unique index on Ballot.tokenHash makes the commit
\* raise IntegrityError (rolled back by get_db, an unhandled 500) when a
\* ballot with this tokenHash was committed meanwhile
SubmitCommit(s) ==
  /\ slots[s].op = "submit" /\ slots[s].pc = "commit"
  /\ IF BallotsByHash(hash_vote_token(slots[s].raw)) # {}
       THEN /\ slots' = [Deliver(slots) EXCEPT ![s] = Done("submit", 500, 0, slots[s].had)]
            /\ UNCHANGED <<tokens, ballots, voters, audit>>
     ELSE /\ ballots' = Append(ballots, NewBallot(s))
          /\ tokens' = MarkTokenUsed(tokens, TokenOf(s))
          /\ voters' = MarkVoterVoted(voters, tokens[TokenOf(s)].voterId)
          /\ audit' = Append(audit, BallotAudit(s, Len(ballots) + 1))
          /\ slots' = [Deliver(slots) EXCEPT ![s].pc = "anchor", ![s].sel = <<>>]
  /\ UNCHANGED <<now, election, codes, ops, mixnet>>

\* the ballot row this invocation inserted
OwnBallot(s) == CHOOSE b \in BallotIds : ballots[b].tokenHash = hash_vote_token(slots[s].raw)

\* Ballot row after a successful anchoring, lines 486-498
Anchored(bl, b) == [bl EXCEPT ![b].status = "CONFIRMED", ![b].fabricTxId = b]

\* the handler letting the anchoring failure escape: the ballot is taken back
\* and the request answers 500
SubmitAnchor_Unwinds(s, ok) ==
  /\ slots[s].op = "submit" /\ slots[s].pc = "anchor"
  /\ ballots' = IF ok THEN Anchored(ballots, OwnBallot(s))
                ELSE SelectSeq(ballots, LAMBDA b : b.tokenHash # hash_vote_token(slots[s].raw))
  /\ slots' = [Deliver(slots) EXCEPT
                ![s] = Done("submit", IF ok THEN 201 ELSE 500, 0, slots[s].had)]
  /\ UNCHANGED <<now, election, voters, codes, tokens, ops, audit, mixnet>>
\* lines 474-549: anchoring either returns a transaction or raises
\* FabricGatewayError, which is swallowed; the response is a success either way
SubmitAnchor(s, ok) ==
  /\ slots[s].op = "submit" /\ slots[s].pc = "anchor"
  /\ ballots' = IF ok THEN Anchored(ballots, OwnBallot(s)) ELSE ballots
  /\ slots' = [Deliver(slots) EXCEPT ![s] = Done("submit", 201, 0, slots[s].had)]
  /\ UNCHANGED <<now, election, voters, codes, tokens, ops, audit, mixnet>>

(* ------------------- identity verification and codes ------------------- *)
\* status the Didit webhook writes ("expired" and unknown statuses write none)
DiditStatus(ws, old) ==
  IF ws = "verified" THEN "VERIFIED"
  ELSE IF ws = "failed" THEN "REJECTED"
  ELSE old

\* whether the transaction of the webhook commits: after the Voter update the
\* handler reads prev_log.auditHash (AuditLog has no such column) and calls
\* create_audit_chain_hash(resource_type=...), a keyword the function does not
\* take; the AttributeError or TypeError propagates and get_db rolls back
DiditCommits(ws) == FALSE

DiditWebhook(v, ws) ==
  /\ ops' = ops + 1
  /\ voters' = IF DiditCommits(ws)
                 THEN [voters EXCEPT ![v] = DiditStatus(ws, voters[v])]
               ELSE voters
  /\ slots' = Deliver(slots)
  /\ UNCHANGED <<now, election, codes, tokens, ballots, audit, mixnet>>

\* generate_codes, scope VOTER, count 1: an ACTIVE code assigned to a voter
\* that is PENDING; the code expires a day after votingEndAt, beyond the clock
GenerateCodes(v) ==
  /\ ops' = ops + 1
  /\ voters[v] = "PENDING"
  /\ Len(codes) < MaxCodes
  /\ codes' = Append(codes, [voterId |-> v, status |-> "ACTIVE"])
  /\ slots' = Deliver(slots)
  /\ audit' = Append(audit, create_audit_entry("election.codes_generated", "AccessCode", NULL, 1))
  /\ UNCHANGED <<now, election, voters, tokens, ballots, mixnet>>

\* status consume_code writes to the voter the code is assigned to
ConsumedStatus(old) == "VERIFIED"

\* consume_code, scope VOTER: a code already USED is refused (400)
ConsumeCode(c) ==
  /\ ops' = ops + 1
  /\ c \in 1..Len(codes)
  /\ IF codes[c].status = "ACTIVE" /\ election.status \in {"PUBLISHED", "ACTIVE"}
       THEN /\ voters' = [voters EXCEPT ![codes[c].voterId] =
                                          ConsumedStatus(voters[codes[c].voterId])]
            /\ codes' = [codes EXCEPT ![c].status = "USED"]
            /\ audit' = Append(audit, create_audit_entry("code.consumed", "AccessCode", c, 1))
     ELSE UNCHANGED <<voters, codes, audit>>
  /\ slots' = Deliver(slots)
  /\ UNCHANGED <<now, election, tokens, ballots, mixnet>>

\* requests and events are accepted while the budget lasts
Accepting == ops < MaxOps

Next ==
  \/ Tick
  \/ \E s \in Slots, e \in ElectionIds, vh \in VoterHashes : Accepting /\ TokenCheck(s, e, vh)
  \/ \E s \in Slots : TokenPrev(s)
  \/ \E s \in Slots : TokenCommit(s)
  \/ \E s \in Slots, e \in ElectionIds, raw \in RawTokens, sel \in SelectionInputs :
       Accepting /\ SubmitValidate(s, e, raw, sel)
  \/ \E s \in Slots : SubmitDupCheck(s)
  \/ \E s \in Slots : SubmitCommit(s)
  \/ \E s \in Slots, ok \in BOOLEAN : SubmitAnchor(s, ok)
  \/ \E v \in Voters, ws \in {"verified", "failed", "expired"} : Accepting /\ DiditWebhook(v, ws)
  \/ \E v \in Voters : Accepting /\ GenerateCodes(v)
  \/ \E c \in 1..MaxCodes : Accepting /\ ConsumeCode(c)

Spec == Init /\ [][Next]_vars

(* The same handlers called one after the other within one clock hour: a   *)
(* request or event is accepted only when no invocation is in flight.      *)
NoneInFlight == \A s \in Slots : Free(s)

SeqAccepting == ops < MaxSeqOps /\ NoneInFlight

SeqNext ==
  \/ \E s \in Slots, e \in ElectionIds, vh \in VoterHashes : SeqAccepting /\ TokenCheck(s, e, vh)
  \/ \E s \in Slots : TokenPrev(s)
  \/ \E s \in Slots : TokenCommit(s)
  \/ \E s \in Slots, e \in ElectionIds, raw \in RawTokens, sel \in SelectionInputs :
       SeqAccepting /\ SubmitValidate(s, e, raw, sel)
  \/ \E s \in Slots : SubmitDupCheck(s)
  \/ \E s \in Slots : SubmitCommit(s)
  \/ \E s \in Slots, ok \in BOOLEAN : SubmitAnchor(s, ok)
  \/ \E v \in Voters, ws \in {"verified", "failed", "expired"} : SeqAccepting /\ DiditWebhook(v, ws)
  \/ \E v \in Voters : SeqAccepting /\ GenerateCodes(v)
  \/ \E c \in 1..MaxCodes : SeqAccepting /\ ConsumeCode(c)

SeqSpec == Init /\ [][SeqNext]_vars

\* the same program where no enabled step is postponed forever: requests in
\* flight run to completion, the clock advances and clients keep sending
\* requests while any is accepted
FairSpec == Spec /\ WF_vars(Next)

(* ------------------- the audit chain on its own ------------------------ *)
\* actions, resource ids and details of the entries an election's lifecycle
\* operations hand to create_audit_entry (None is NULL, {} and "" are 0)
AuditActions == {"election.created", "election.published"}
AuditResourceIds == {NULL, 1}
AuditDetails == {0, 1}

\* one lifecycle operation appending its entry to the chain
AppendAudit(action, resource_id, details) ==
  /\ Len(audit) < MaxChain
  /\ audit' = Append(audit, create_audit_entry(action, "Election", resource_id, details))
  /\ UNCHANGED <<now, election, voters, codes, tokens, ballots, slots, ops, mixnet>>

ChainNext ==
  \/ Tick
  \/ \E a \in AuditActions, r \in AuditResourceIds, d \in AuditDetails : AppendAudit(a, r, d)

ChainSpec == Init /\ [][ChainNext]_vars

(* ----------------------- commitments and receipts ---------------------- *)
\* a text is the sequence of its characters
Bar == <<"|">>
Digits == <<"0", "1", "2", "3", "4", "5", "6", "7", "8", "9">>

\* str(n) of a non-negative integer, as an f-string formats it
RECURSIVE str(_)
str(n) == IF n < 10 THEN <<Digits[n + 1]>> ELSE str(n \div 10) \o <<Digits[(n % 10) + 1]>>

\* hexdigest() of a hash as a text: one text per hash
hexdigest(h) == <<"<">> \o h[2] \o <<">">>

\* [:16].upper() of a hex digest
first16_upper(h) == <<"first16_upper", h>>

\* int(now.timestamp() * 1000) of a clock that counts hours
Millis(t) == t * 3600000

\* the commitment hashing the four components with nothing between them
create_ballot_commitment_NoDelimiter(election_id, encrypted_ballot, salt, timestamp) ==
  sha256(encrypted_ballot \o salt \o election_id \o str(timestamp))
\* SHA-256 of f"{encrypted_ballot}|{salt}|{election_id}|{timestamp}"
create_ballot_commitment(election_id, encrypted_ballot, salt, timestamp) ==
  sha256(encrypted_ballot \o Bar \o salt \o Bar \o election_id \o Bar \o str(timestamp))

\* the receipt of a web submission: first 16 hex characters, upper-cased, of
\* SHA-256 of f"{commitment_hash}|{timestamp}|{election_id}"
create_voter_receipt(commitment_hash, timestamp, election_id) ==
  first16_upper(sha256(hexdigest(commitment_hash) \o Bar \o str(timestamp) \o Bar \o election_id))

\* the receipt of an approved paper ballot: commitment_hash[:16].upper()
paper_receipt(commitment_hash) == first16_upper(commitment_hash)

\* base64 texts encrypt_ballot_selections and generate_commitment_salt may
\* return (both are random), and the ids of two elections
Ciphertexts == {<<"Y">>, <<"Y", "W">>}
Salts == {<<"I">>, <<"W", "I">>}
ElectionTexts == {<<"e", "1">>, <<"e", "2">>}

\* the commitment columns of the Ballot row a submission stores, with the
\* receipt code its response carries
CommitmentRow(channel, e, enc, salt, t, receipt) ==
  [channel |-> channel, electionId |-> e, encryptedBallot |-> enc, commitmentSalt |-> salt,
   timestamp |-> t, commitmentHash |-> create_ballot_commitment(e, enc, salt, t),
   receiptCode |-> receipt]

\* submit_ballot: commitment and receipt of a web submission
WebCommitment(e, enc, salt) ==
  /\ Len(ballots) < MaxCommitments
  /\ LET t == Millis(now)
         c == create_ballot_commitment(e, enc, salt, t)
     IN  ballots' = Append(ballots, CommitmentRow("WEB", e, enc, salt, t,
                                                  create_voter_receipt(c, t, e)))
  /\ UNCHANGED <<now, election, voters, codes, tokens, slots, audit, ops, mixnet>>

\* approve_and_count: commitment and receipt of an approved paper ballot
PaperCommitment(e, enc, salt) ==
  /\ Len(ballots) < MaxCommitments
  /\ LET t == Millis(now)
         c == create_ballot_commitment(e, enc, salt, t)
     IN  ballots' = Append(ballots, CommitmentRow("PAPER", e, enc, salt, t, paper_receipt(c)))
  /\ UNCHANGED <<now, election, voters, codes, tokens, slots, audit, ops, mixnet>>

CryptoNext ==
  \/ Tick
  \/ \E e \in ElectionTexts, enc \in Ciphertexts, salt \in Salts : WebCommitment(e, enc, salt)
  \/ \E e \in ElectionTexts, enc \in Ciphertexts, salt \in Salts : PaperCommitment(e, enc, salt)

CryptoSpec == Init /\ [][CryptoNext]_vars

(* ------------------------- ballot encryption --------------------------- *)
\* JSON values: a string, an integer or null
JStr(x) == <<"str", x>>
JInt(n) == <<"int", n>>
JNull == <<"null">>

\* VoteSelection.dict(): all five fields, the absent ones None
VoteSelection(c, o, rank, writeIn) ==
  [contestId |-> JStr(c), optionId |-> o, rank |-> rank, score |-> JNull, writeIn |-> writeIn]

\* valid selection lists a ballot may hold
EncSelections ==
  { <<>>,
    <<VoteSelection("c1", JStr("o1"), JNull, JNull)>>,
    <<VoteSelection("c1", JStr("o2"), JInt(1), JNull)>>,
    <<VoteSelection("c1", JNull, JNull, JStr("w")), VoteSelection("c1", JStr("o1"), JNull, JNull)>> }

\* the keys of a selection in sorted order (sort_keys=True)
SortedKeys == <<"contestId", "optionId", "rank", "score", "writeIn">>

\* the serialisation that leaves out the fields that are None
json_dumps_DropsNull(selections) ==
  [i \in 1..Len(selections) |->
     SelectSeq([k \in 1..Len(SortedKeys) |-> <<SortedKeys[k], selections[i][SortedKeys[k]]>>],
               LAMBDA kv : kv[2] # JNull)]
\* json.dumps(selections, sort_keys=True): per selection its key/value pairs in
\* key order
json_dumps(selections) ==
  [i \in 1..Len(selections) |->
     [k \in 1..Len(SortedKeys) |-> <<SortedKeys[k], selections[i][SortedKeys[k]]>>]]

\* json.loads: per object the dict of its pairs
json_loads(text) ==
  [i \in 1..Len(text) |->
     [key \in {text[i][k][1] : k \in 1..Len(text[i])} |->
        (text[i][CHOOSE k \in 1..Len(text[i]) : text[i][k][1] = key])[2]]]

\* PBKDF2 of the master key salted with the election id
derive_election_key(election_id) == <<"pbkdf2", election_id>>

\* AES-256-GCM: the encrypted bytes followed by the 16-byte tag
AESGCM_encrypt(key, iv, plaintext) ==
  [body |-> [key |-> key, iv |-> iv, plaintext |-> plaintext],
   tag  |-> <<"tag", key, iv, plaintext>>]

\* decryption checks the tag under the key and iv given, else InvalidTag
AESGCM_decrypt(key, iv, ciphertext) ==
  IF /\ ciphertext.body.key = key /\ ciphertext.body.iv = iv
     /\ ciphertext.tag = <<"tag", key, iv, ciphertext.body.plaintext>>
    THEN [ok |-> TRUE, plaintext |-> ciphertext.body.plaintext]
  ELSE [ok |-> FALSE]

b64encode(bytes) == <<"base64", bytes>>
b64decode(text) == text[2]

\* lines 75-112: serialise, encrypt under the election key with a random iv,
\* split off the tag (the last 16 bytes), base64 each part
encrypt_ballot_selections(selections, election_id, iv) ==
  LET ciphertext == AESGCM_encrypt(derive_election_key(election_id), iv, json_dumps(selections))
  IN  [encrypted |-> b64encode(ciphertext.body), iv |-> b64encode(iv),
       authTag |-> b64encode(ciphertext.tag)]

\* lines 115-137: decode, put the tag back, decrypt, parse
decrypt_ballot_selections(encrypted_data, election_id) ==
  LET ciphertext == [body |-> b64decode(encrypted_data.encrypted),
                     tag |-> b64decode(encrypted_data.authTag)]
      r == AESGCM_decrypt(derive_election_key(election_id), b64decode(encrypted_data.iv),
                          ciphertext)
  IN  IF r.ok THEN [ok |-> TRUE, selections |-> json_loads(r.plaintext)] ELSE [ok |-> FALSE]

\* random 96-bit ivs
IVs == {1, 2}

\* one encryption of a selection list and the decryption of its result, under
\* the same election id and under the id the caller chooses
EncryptDecrypt(sel, e, e2, iv) ==
  /\ Len(ballots) < MaxCommitments
  /\ LET data == encrypt_ballot_selections(sel, e, iv)
     IN  ballots' = Append(ballots, [selections |-> sel, electionId |-> e, data |-> data,
                                     decryptedFor |-> e2,
                                     decrypted |-> decrypt_ballot_selections(data, e2)])
  /\ UNCHANGED <<now, election, voters, codes, tokens, slots, audit, ops, mixnet>>

EncNext ==
  \E sel \in EncSelections, e \in ElectionTexts, e2 \in ElectionTexts, iv \in IVs :
    EncryptDecrypt(sel, e, e2, iv)

EncSpec == Init /\ [][EncNext]_vars

(* ------------------------- ballot verification ------------------------ *)
\* the Ballot columns verify_ballot reads, as submit_ballot stores them
VerifiableBallot(e, enc, salt, t) ==
  [electionId |-> e, commitmentHash |-> create_ballot_commitment(e, enc, salt, t),
   status |-> "PENDING", fabricTxId |-> NULL, fabricBlockNum |-> NULL]

\* a submission committing its ballot; a random salt never repeats
StoreBallot(e, enc, salt) ==
  /\ Len(ballots) < MaxCommitments
  /\ \A b \in BallotIds :
       ballots[b].commitmentHash # create_ballot_commitment(e, enc, salt, Millis(now))
  /\ ballots' = Append(ballots, VerifiableBallot(e, enc, salt, Millis(now)))
  /\ UNCHANGED <<now, election, voters, codes, tokens, slots, audit, ops, mixnet>>

\* block number the ledger returns: its height after adding the entry
BlockHeight == Cardinality({b \in BallotIds : ballots[b].fabricTxId # NULL})

\* the update after a successful anchoring, voting.py lines 486-498
AnchorBallot(b) ==
  /\ b \in BallotIds /\ ballots[b].status = "PENDING"
  /\ ballots' = [ballots EXCEPT ![b].status = "CONFIRMED", ![b].fabricTxId = b,
                                ![b].fabricBlockNum = BlockHeight + 1]
  /\ UNCHANGED <<now, election, voters, codes, tokens, slots, audit, ops, mixnet>>

\* the ballots the query of lines 568-583 selects: by commitment hash, within
\* the election when the request names one (scope <<>>: none named)
VerifyQuery(h, scope) ==
  { b \in BallotIds : /\ ballots[b].commitmentHash = h
                       /\ (scope # <<>> => ballots[b].electionId = scope) }

\* VerifyBallotResponse of verify_ballot, lines 585-622
verify_ballot(h, scope) ==
  LET S == VerifyQuery(h, scope)
  IN  IF S = {}
        THEN [op |-> "verify", hash |-> h, scope |-> scope, found |-> FALSE, verified |-> FALSE,
              status |-> "", fabricTxId |-> NULL, fabricBlockNum |-> NULL]
      ELSE LET ballot == ballots[CHOOSE b \in S : TRUE]
           IN  [op |-> "verify", hash |-> h, scope |-> scope, found |-> TRUE, verified |-> TRUE,
                status |-> ballot.status, fabricTxId |-> ballot.fabricTxId,
                fabricBlockNum |-> ballot.fabricBlockNum]

\* commitment hashes a client may ask about
VerifyHashes ==
  { create_ballot_commitment(e, <<"Y">>, salt, Millis(0)) : e \in ElectionTexts, salt \in Salts }

\* POST /voting/verify: the response is the only effect
VerifyBallot(h, scope) ==
  /\ slots' = [slots EXCEPT ![1] = verify_ballot(h, scope)]
  /\ UNCHANGED <<now, election, voters, codes, tokens, ballots, audit, ops, mixnet>>

VerifyNext ==
  \/ \E e \in ElectionTexts, salt \in Salts : StoreBallot(e, <<"Y">>, salt)
  \/ \E b \in 1..MaxCommitments : AnchorBallot(b)
  \/ \E h \in VerifyHashes, scope \in ElectionTexts \cup {<<>>} : VerifyBallot(h, scope)

VerifySpec == Init /\ [][VerifyNext]_vars

(* ------------------------------ the mix-net ---------------------------- *)
\* hexdigest of SHA-256 of a text, as a text: one digest per text
sha256_hex(text) == "sha256(" \o text \o ")"

\* "".join(texts)
RECURSIVE join(_)
join(texts) == IF texts = <<>> THEN "" ELSE Head(texts) \o join(Tail(texts))

\* the multiset of the elements of a list: what sorting the list keeps of it
RECURSIVE BagOf(_)
BagOf(list) == IF list = <<>> THEN EmptyBag ELSE BagOf(Tail(list)) (+) SetToBag({Head(list)})

\* initialize_nodes: node i with the public key of its generated private key
MixNode(i) ==
  [node_id |-> "mix_node_" \o ToString(i), public_key |-> sha256_hex("sk" \o ToString(i))]
mix_nodes == [i \in 1..NumNodes |-> MixNode(i)]
master_public_key == sha256_hex(join([i \in 1..NumNodes |-> mix_nodes[i].public_key]))

\* json.dumps of the ciphertext object
ciphertext_text(ct) == "{c1:" \o ct.c1 \o ",c2:" \o ct.c2 \o "}"

\* lines 177-224: the simulated ElGamal encryption of a ballot for the mix
encrypt_ballot_for_mixing(ballot_json, ballot_id, randomness) ==
  [ballot_id |-> ballot_id,
   ciphertext |-> [c1 |-> sha256_hex(randomness),
                   c2 |-> sha256_hex(ballot_json \o randomness \o master_public_key)],
   proof_of_knowledge |-> sha256_hex(ballot_json \o randomness \o "pok"),
   layer |-> 0]

\* lines 507-514: SHA-256 of the sorted list of the ciphertext digests
hash_ballot_list(bs) ==
  <<"sha256", BagOf([i \in 1..Len(bs) |-> sha256_hex(ciphertext_text(bs[i].ciphertext))])>>

\* lines 419-444: the re-randomisation of one ballot at a node
reencrypt(ballot, node, new_randomness) ==
  [ballot_id |-> ballot.ballot_id,
   ciphertext |-> [c1 |-> sha256_hex(ballot.ciphertext.c1 \o new_randomness),
                   c2 |-> sha256_hex(ballot.ciphertext.c2 \o new_randomness \o node.public_key)],
   proof_of_knowledge |-> ballot.proof_of_knowledge,
   layer |-> ballot.layer + 1]

\* the orders SystemRandom().shuffle may leave range(n) in
Perms(n) == { p \in [1..n -> 1..n] : \A i, j \in 1..n : p[i] = p[j] => i = j }

\* secrets.token_hex: a value never drawn before
Nonce(stage, k) == "n" \o ToString(stage) \o "." \o ToString(k)

\* the stage writing out all but the last of the shuffled ballots
shuffle_and_reencrypt_DropsLast(bs, node, shuffled_indices, stage) ==
  LET shuffled == [k \in 1..(Len(shuffled_indices) - 1) |->
                     reencrypt(bs[shuffled_indices[k]], node, Nonce(stage, k))]
  IN  [ballots |-> shuffled,
       proof |-> [proof |-> Nonce(stage, "zk"),
                  permutation_commitment |-> sha256_hex(ToString(shuffled_indices)),
                  re_encryption_proof |-> Nonce(stage, "re"),
                  input_hash |-> hash_ballot_list(bs),
                  output_hash |-> hash_ballot_list(shuffled),
                  node_id |-> node.node_id]]
\* lines 400-464: one node shuffles the list and re-encrypts every ballot
shuffle_and_reencrypt(bs, node, shuffled_indices, stage) ==
  LET shuffled == [k \in 1..Len(shuffled_indices) |->
                     reencrypt(bs[shuffled_indices[k]], node, Nonce(stage, k))]
  IN  [ballots |-> shuffled,
       proof |-> [proof |-> Nonce(stage, "zk"),
                  permutation_commitment |-> sha256_hex(ToString(shuffled_indices)),
                  re_encryption_proof |-> Nonce(stage, "re"),
                  input_hash |-> hash_ballot_list(bs),
                  output_hash |-> hash_ballot_list(shuffled),
                  node_id |-> node.node_id]]

\* lines 466-483: one share per node, each a random value
generate_decryption_shares ==
  [i \in 1..NumNodes |-> [node_id |-> mix_nodes[i].node_id, share |-> "share" \o ToString(i),
                          proof |-> "proof" \o ToString(i)]]

\* lines 485-505: counts and digests of the sorted ballot ids of both lists
prove_ballot_conservation(input_ballots, output_ballots) ==
  [input_count |-> Len(input_ballots), output_count |-> Len(output_ballots),
   input_ids_hash |-> <<"sha256", BagOf([i \in 1..Len(input_ballots) |->
                                           input_ballots[i].ballot_id])>>,
   output_ids_hash |-> <<"sha256", BagOf([i \in 1..Len(output_ballots) |->
                                            output_ballots[i].ballot_id])>>]

\* serialised selections a ballot may hold
MixPlaintexts == {"s1", "s2"}

\* mix_ballots is called with n ballots encrypted for the mix, on a service
\* whose nodes were initialized or on one whose list of nodes is still empty
MixStart(n, data, nodes) ==
  /\ mixnet.pc = "idle"
  /\ LET input == [i \in 1..n |-> encrypt_ballot_for_mixing(data[i], "b" \o ToString(i),
                                                             "r" \o ToString(i))]
     IN  mixnet' = [NoCascade EXCEPT !.pc = "mixing", !.nodes = nodes, !.input = input,
                                     !.current = input]
  /\ UNCHANGED <<now, election, voters, codes, tokens, ballots, slots, audit, ops>>

\* the list a node is handed: the output of the node before it
StageInput_Original(m) == m.input
StageInput(m) == m.current

\* one turn of the loop of lines 259-269: the next node in list order
ShuffleStage(shuffled_indices) ==
  /\ mixnet.pc = "mixing" /\ Len(mixnet.proofs) < mixnet.nodes
  /\ LET stage == Len(mixnet.proofs) + 1
         r == shuffle_and_reencrypt(StageInput(mixnet), mix_nodes[stage], shuffled_indices, stage)
     IN  mixnet' = [mixnet EXCEPT !.current = r.ballots, !.proofs = Append(@, r.proof)]
  /\ UNCHANGED <<now, election, voters, codes, tokens, ballots, slots, audit, ops>>

\* lines 271-299: after the last node the result is assembled and returned
MixFinish ==
  /\ mixnet.pc = "mixing" /\ Len(mixnet.proofs) = mixnet.nodes
  /\ mixnet' = [mixnet EXCEPT
                  !.pc = "done",
                  !.result = [mixed_ballots |-> mixnet.current,
                              shuffle_proofs |-> mixnet.proofs,
                              decryption_shares |->
                                SubSeq(generate_decryption_shares, 1, mixnet.nodes),
                              final_permutation_proof |->
                                prove_ballot_conservation(mixnet.input, mixnet.current)]]
  /\ UNCHANGED <<now, election, voters, codes, tokens, ballots, slots, audit, ops>>

\* a list with the element at position i taken out
RemoveAt(list, i) == SubSeq(list, 1, i - 1) \o SubSeq(list, i + 1, Len(list))

\* the returned result altered before it is handed to a verifier: a ballot
\* dropped, a copy of a ballot added, or a ballot replaced by a copy of another
TamperResult(kind, i, j) ==
  /\ mixnet.pc = "done" /\ ~mixnet.tampered /\ mixnet.verdict = "none"
  /\ i \in 1..Len(mixnet.result.mixed_ballots) /\ j \in 1..Len(mixnet.result.mixed_ballots)
  /\ kind = "replace" => i # j
  /\ kind # "replace" => i = j
  /\ LET mixed == mixnet.result.mixed_ballots
     IN  mixnet' = [mixnet EXCEPT
                     !.tampered = TRUE,
                     !.result.mixed_ballots =
                        CASE kind = "drop"    -> RemoveAt(mixed, i)
                          [] kind = "add"     -> Append(mixed, mixed[i])
                          [] kind = "replace" -> [mixed EXCEPT ![i] = mixed[j]]]
  /\ UNCHANGED <<now, election, voters, codes, tokens, ballots, slots, audit, ops>>

\* lines 516-524: the structure check of one shuffle proof
verify_shuffle_proof(proof) ==
  /\ Len(proof.proof) > 0
  /\ Len(proof.permutation_commitment) > 0
  /\ Len(proof.re_encryption_proof) > 0

\* the loop of lines 323-343: every proof starts at the hash the one before
\* it ended at, and has the structure of a proof
RECURSIVE ProofsLinked(_, _)
ProofsLinked(proofs, current_input_hash) ==
  \/ proofs = <<>>
  \/ /\ Head(proofs).input_hash = current_input_hash
     /\ verify_shuffle_proof(Head(proofs))
     /\ ProofsLinked(Tail(proofs), Head(proofs).output_hash)

\* lines 301-353
verify_mixnet_proofs(result, original_ballots) ==
  /\ ProofsLinked(result.shuffle_proofs, hash_ballot_list(original_ballots))
  /\ Len(result.mixed_ballots) = Len(original_ballots)

\* a verifier checks the result against the original input
VerifyProofs ==
  /\ mixnet.pc = "done" /\ mixnet.verdict = "none"
  /\ mixnet' = [mixnet EXCEPT !.verdict =
                   IF verify_mixnet_proofs(mixnet.result, mixnet.input) THEN "accepted"
                   ELSE "rejected"]
  /\ UNCHANGED <<now, election, voters, codes, tokens, ballots, slots, audit, ops>>

MixNext ==
  \/ \E n \in 0..MaxMixBallots, nodes \in {0, NumNodes} :
       \E data \in [1..n -> MixPlaintexts] : MixStart(n, data, nodes)
  \/ \E p \in Perms(Len(mixnet.current)) : ShuffleStage(p)
  \/ MixFinish
  \/ \E kind \in {"drop", "add", "replace"}, i \in 1..(MaxMixBallots + 1),
        j \in 1..(MaxMixBallots + 1) : TamperResult(kind, i, j)
  \/ VerifyProofs

MixSpec == Init /\ [][MixNext]_vars

(* ------------------------- threshold decryption ------------------------ *)
\* lines 526-530: the share values joined in list order, then hashed
combine_shares(shares) == sha256_hex(join([i \in 1..Len(shares) |-> shares[i].share]))

Min(a, b) == IF a < b THEN a ELSE b

\* lines 355-394 without the length check of lines 373-376
threshold_decrypt_NoThresholdCheck(encrypted_ballot, decryption_shares) ==
  LET used == SubSeq(decryption_shares, 1, Min(threshold, Len(decryption_shares)))
  IN  IF \E i \in 1..Len(used) : "share" \notin DOMAIN used[i]
      THEN [status |-> "error", error |-> "KeyError"]
      ELSE [status |-> "ok", ballot_id |-> encrypted_ballot.ballot_id, decrypted |-> TRUE,
            plaintext_hash |-> sha256_hex(encrypted_ballot.ciphertext.c2 \o combine_shares(used))]
\* lines 355-394: fewer shares than the threshold raise ValueError; otherwise
\* the first `threshold` shares of the list are combined (a share without a
\* "share" key raises KeyError) and the digest of c2 and the combined key is
\* returned with the ballot id
threshold_decrypt(encrypted_ballot, decryption_shares) ==
  IF Len(decryption_shares) < threshold
  THEN [status |-> "error", error |-> "ValueError"]
  ELSE LET used == SubSeq(decryption_shares, 1, threshold)
       IN  IF \E i \in 1..Len(used) : "share" \notin DOMAIN used[i]
           THEN [status |-> "error", error |-> "KeyError"]
           ELSE [status |-> "ok", ballot_id |-> encrypted_ballot.ballot_id, decrypted |-> TRUE,
                 plaintext_hash |->
                   sha256_hex(encrypted_ballot.ciphertext.c2 \o combine_shares(used))]

\* lines 257-275 as a function: the ballots after the nodes from `stage` on
\* have each shuffled and re-encrypted them
RECURSIVE mix_ballots(_, _, _)
mix_ballots(bs, shuffled_indices, stage) ==
  IF stage > NumNodes THEN bs
  ELSE mix_ballots(shuffle_and_reencrypt(bs, mix_nodes[stage], shuffled_indices, stage).ballots,
                   shuffled_indices, stage + 1)

\* the shares the nodes produced for a cascade
GenuineShares == { generate_decryption_shares[i] : i \in 1..NumNodes }
\* a well-formed share no node produced, and a share without its value
ForgedShare == [node_id |-> "mix_node_1", share |-> "forged", proof |-> "forged"]
MalformedShare == [node_id |-> "mix_node_1", proof |-> "proof1"]
ShareValues == GenuineShares \cup {ForgedShare, MalformedShare}
ShareLists == UNION { [1..n -> ShareValues] : n \in 0..(threshold + 1) }

\* threshold_decrypt is called once, on a ballot as encrypted for the mix or
\* as it leaves the cascade, with a list of shares
ThresholdDecrypt(ballot_json, stage, shares) ==
  /\ ballots = <<>>
  /\ LET encrypted == encrypt_ballot_for_mixing(ballot_json, "b1", "r1")
         encrypted_ballot == IF stage = "input" THEN encrypted
                             ELSE mix_ballots(<<encrypted>>, <<1>>, 1)[1]
     IN  ballots' = <<[ballot_json |-> ballot_json, stage |-> stage,
                       encrypted_ballot |-> encrypted_ballot, shares |-> shares,
                       outcome |-> threshold_decrypt(encrypted_ballot, shares)]>>
  /\ UNCHANGED <<now, election, voters, codes, tokens, slots, audit, ops, mixnet>>

DecNext ==
  \E ballot_json \in MixPlaintexts, stage \in {"input", "mixed"}, shares \in ShareLists :
    ThresholdDecrypt(ballot_json, stage, shares)

DecSpec == Init /\ [][DecNext]_vars

(* ------------------------ ballot validity proofs ----------------------- *)
\* hashed voter identifiers, in lexicographic order
LeafHashes == <<"h(v1)", "h(v2)", "h(v3)">>
\* sorted([current, sibling]) joined: the smaller string first
sorted_pair(a, b) ==
  LET rank(x) == CHOOSE k \in 1..Len(LeafHashes) : LeafHashes[k] = x
  IN  IF rank(a) <= rank(b) THEN a \o b ELSE b \o a

\* zk_proof.py 334-348, for paths of at most one sibling
verify_merkle_path(leaf, path, root) ==
  LET current == IF path = <<>> THEN leaf ELSE sha256_hex(sorted_pair(leaf, path[1]))
  IN  current = root

\* zk_proof.py 109-121: the simulated Groth16 proof, its curve points random
proof_data ==
  [type |-> "groth16", protocol |-> "ObserverNet-v1", curve |-> "bn128",
   pi_a |-> "point_a", pi_b |-> "point_pair_b", pi_c |-> "point_c",
   algorithm |-> "Groth16-ZK-SNARK", circuit_version |-> "ballot_validity_v1"]

\* json.dumps / json.loads of the proof object
proof_dumps(data) == <<"json", data>>
proof_loads(text) == text[2]

\* zk_proof.py 55-134
generate_ballot_validity_proof(voter_hash, allowlist_merkle_root, merkle_path, ballot_selections, election_id) ==
  LET ballot_commitment == sha256(json_dumps(ballot_selections))
  IN  IF ~verify_merkle_path(voter_hash, merkle_path, allowlist_merkle_root)
      THEN [status |-> "error", error |-> "ValueError"]
      ELSE [status |-> "ok",
            proof |-> b64encode(proof_dumps(proof_data)),
            publicInputs |-> <<allowlist_merkle_root, ballot_commitment,
                               sha256_hex(election_id)>>,
            proofType |-> "ballot_validity"]

\* zk_proof.py 136-197 with the election hash left out of the comparison
verify_ballot_validity_proof_IgnoresElection(proof, allowlist_merkle_root, ballot_commitment, election_id) ==
  LET data == proof_loads(b64decode(proof.proof))
  IN  /\ SubSeq(proof.publicInputs, 1, 2) = <<allowlist_merkle_root, ballot_commitment>>
      /\ {"pi_a", "pi_b", "pi_c", "curve", "type"} \subseteq DOMAIN data
      /\ data.type = "groth16"
      /\ data.curve = "bn128"
\* zk_proof.py 136-197: the public inputs equal the expected list, and the
\* decoded proof has the required fields, type and curve
verify_ballot_validity_proof(proof, allowlist_merkle_root, ballot_commitment, election_id) ==
  LET expected_inputs == <<allowlist_merkle_root, ballot_commitment, sha256_hex(election_id)>>
      data == proof_loads(b64decode(proof.proof))
  IN  /\ proof.publicInputs = expected_inputs
      /\ {"pi_a", "pi_b", "pi_c", "curve", "type"} \subseteq DOMAIN data
      /\ data.type = "groth16"
      /\ data.curve = "bn128"

\* the inputs drawn
MerklePaths == { <<>>, <<"h(v2)">> }
MerkleRoots == { "h(v1)", sha256_hex(sorted_pair("h(v1)", "h(v2)")) }
ZkElections == { "e1", "e2" }
ZkCommitments == { sha256(json_dumps(sel)) : sel \in EncSelections }

\* a proof is generated for (root, selections, election) and then verified
\* against (root2, commitment2, election2)
ProveAndVerify(path, root, sel, e, root2, commitment2, e2) ==
  /\ ballots = <<>>
  /\ LET proof == generate_ballot_validity_proof("h(v1)", root, path, sel, e)
     IN  ballots' = <<[root |-> root, selections |-> sel, electionId |-> e, proof |-> proof,
                       root2 |-> root2, commitment2 |-> commitment2, electionId2 |-> e2,
                       verified |-> IF proof.status = "ok"
                                    THEN verify_ballot_validity_proof(proof, root2, commitment2, e2)
                                    ELSE FALSE]>>
  /\ UNCHANGED <<now, election, voters, codes, tokens, slots, audit, ops, mixnet>>

\* a ZKProof object put together without generate_ballot_validity_proof, by a
\* party whose hash is under no allowlist root: the public inputs it wants
\* and a proof body with the fields the verifier looks for
forged_proof(allowlist_merkle_root, ballot_commitment, election_id) ==
  [status |-> "ok",
   proof |-> b64encode(proof_dumps([type |-> "groth16", curve |-> "bn128", pi_a |-> "x",
                                    pi_b |-> "x", pi_c |-> "x"])),
   publicInputs |-> <<allowlist_merkle_root, ballot_commitment, sha256_hex(election_id)>>,
   proofType |-> "ballot_validity"]

\* the forged object is handed to the verifier
ForgeAndVerify(root, commitment, e) ==
  /\ slots[1] = Idle
  /\ LET proof == forged_proof(root, commitment, e)
     IN  slots' = [slots EXCEPT ![1] =
                     [voter_hash |-> "h(v3)", root |-> root, commitment |-> commitment,
                      electionId |-> e, proof |-> proof,
                      verified |-> verify_ballot_validity_proof(proof, root, commitment, e)]]
  /\ UNCHANGED <<now, election, voters, codes, tokens, ballots, audit, ops, mixnet>>

ZkNext ==
  \/ \E path \in MerklePaths, root \in MerkleRoots, sel \in EncSelections, e \in ZkElections,
        root2 \in MerkleRoots, commitment2 \in ZkCommitments, e2 \in ZkElections :
       ProveAndVerify(path, root, sel, e, root2, commitment2, e2)
  \/ \E root \in MerkleRoots, commitment \in ZkCommitments, e \in ZkElections :
       ForgeAndVerify(root, commitment, e)

ZkSpec == Init /\ [][ZkNext]_vars

(* ----------------------------- tally proofs ---------------------------- *)
\* the options of the tallied contest
TallyOptions == {"A", "B"}
\* json.dumps of one ballot and of a tally, keys sorted
ballot_dumps(b) == "{option:" \o b.option \o "}"
tally_dumps(tally_result) ==
  "{A:" \o ToString(tally_result["A"]) \o ",B:" \o ToString(tally_result["B"]) \o "}"

\* one level of zk_proof.py 360-368: neighbours hashed in pairs, the last
\* leaf of an odd level paired with itself
RECURSIVE merkle_level(_)
merkle_level(level) ==
  IF level = <<>> THEN <<>>
  ELSE IF Len(level) = 1 THEN <<sha256_hex(level[1] \o level[1])>>
  ELSE <<sha256_hex(level[1] \o level[2])>> \o merkle_level(SubSeq(level, 3, Len(level)))

\* zk_proof.py 350-370
RECURSIVE compute_merkle_root(_)
compute_merkle_root(leaves) ==
  IF leaves = <<>> THEN sha256_hex("")
  ELSE IF Len(leaves) = 1 THEN leaves[1]
  ELSE compute_merkle_root(merkle_level(leaves))

\* zk_proof.py 199-270: the tally is committed to as it was passed in
generate_tally_proof(encrypted_ballots, tally_result, election_id) ==
  LET ballot_hashes == [i \in 1..Len(encrypted_ballots) |->
                          sha256_hex(ballot_dumps(encrypted_ballots[i]))]
      merkle_root == compute_merkle_root(ballot_hashes)
      tally_commitment == sha256_hex(tally_dumps(tally_result))
  IN  [proof |-> b64encode(proof_dumps(
                   [type |-> "groth16", protocol |-> "ObserverNet-Tally-v1", curve |-> "bn128",
                    pi_a |-> "point_a", pi_b |-> "point_pair_b", pi_c |-> "point_c",
                    algorithm |-> "Groth16-ZK-SNARK-Tally",
                    circuit_version |-> "tally_correctness_v1",
                    num_ballots |-> Len(encrypted_ballots)])),
       publicInputs |-> <<merkle_root, tally_commitment, sha256_hex(election_id),
                          ToString(Len(encrypted_ballots))>>,
       proofType |-> "tally_correctness"]

\* zk_proof.py 272-328
verify_tally_proof(proof, ballot_merkle_root, tally_commitment, election_id, ballot_count) ==
  LET expected_inputs == <<ballot_merkle_root, tally_commitment, sha256_hex(election_id),
                           ToString(ballot_count)>>
      data == proof_loads(b64decode(proof.proof))
  IN  /\ proof.publicInputs = expected_inputs
      /\ "circuit_version" \in DOMAIN data /\ data.circuit_version = "tally_correctness_v1"
      /\ "num_ballots" \in DOMAIN data /\ data.num_ballots = ballot_count

\* the tally the ballots give: per option the number of ballots choosing it
count_votes(bs) ==
  [o \in TallyOptions |-> Cardinality({ i \in 1..Len(bs) : bs[i].option = o })]

TallyBallotLists ==
  UNION { [1..n -> { [option |-> o] : o \in TallyOptions }] : n \in 0..MaxTallyBallots }
TallyResults == [TallyOptions -> 0..MaxTallyBallots]

\* a tally proof is generated for the ballots and a tally, and a verifier who
\* holds the published ballots and tally checks it for a ballot count
ProveTally(bs, tally_result, ballot_count) ==
  /\ ballots = <<>>
  /\ LET proof == generate_tally_proof(bs, tally_result, "e1")
         root == compute_merkle_root([i \in 1..Len(bs) |-> sha256_hex(ballot_dumps(bs[i]))])
     IN  ballots' = <<[encrypted_ballots |-> bs, tally_result |-> tally_result,
                       ballot_count |-> ballot_count, proof |-> proof,
                       verified |-> verify_tally_proof(proof, root,
                                                       sha256_hex(tally_dumps(tally_result)),
                                                       "e1", ballot_count)]>>
  /\ UNCHANGED <<now, election, voters, codes, tokens, slots, audit, ops, mixnet>>

TallyNext ==
  \E bs \in TallyBallotLists, tally_result \in TallyResults, ballot_count \in 0..MaxTallyBallots :
    ProveTally(bs, tally_result, ballot_count)

TallySpec == Init /\ [][TallyNext]_vars

(* ---------------------- concurrent audited operations ------------------ *)
\* elections.py 230-268 inside a handler's transaction: create_audit_entry
\* reads the hash of the last committed row and builds its entry on it; the
\* row is added to the session and becomes visible at the handler's commit
AuditRead(s, action) ==
  /\ slots[s] = Idle
  /\ Len(audit) < MaxChain
  /\ slots' = [slots EXCEPT ![s] =
                 [op |-> "audited", pc |-> "insert",
                  entry |-> create_audit_entry(action, "Election", 1, NULL)]]
  /\ UNCHANGED <<now, election, voters, codes, tokens, ballots, audit, ops, mixnet>>

\* await db.commit() of the handler: the entry built at the read is stored
AuditCommit(s) ==
  /\ slots[s] # Idle /\ slots[s].pc = "insert"
  /\ audit' = Append(audit, slots[s].entry)
  /\ slots' = [slots EXCEPT ![s] = Idle]
  /\ UNCHANGED <<now, election, voters, codes, tokens, ballots, ops, mixnet>>

ForkNext ==
  \/ \E s \in Slots, a \in AuditActions \cup {"election.activated", "election.closed"} :
       AuditRead(s, a)
  \/ \E s \in Slots : AuditCommit(s)

ForkSpec == Init /\ [][ForkNext]_vars

(* --------------------------- blocked voters --------------------------- *)
\* the status column of a Voter row is set to BLOCKED or REJECTED (models.py
\* 33-39), the values request_vote_token refuses; the write comes from the
\* operator of the database, no handler commits one
SetVoterStatus(v, st) ==
  /\ ops' = ops + 1
  /\ voters' = [voters EXCEPT ![v] = st]
  /\ slots' = Deliver(slots)
  /\ UNCHANGED <<now, election, codes, tokens, ballots, audit, mixnet>>

\* the handlers called one after the other, and the status write
BlockNext ==
  \/ SeqNext
  \/ \E v \in Voters, st \in {"BLOCKED", "REJECTED"} : SeqAccepting /\ SetVoterStatus(v, st)

BlockSpec == Init /\ [][BlockNext]_vars

(* -------------------------- election lifecycle ------------------------- *)
\* models.py 64-70
ElectionStatus == {"DRAFT", "PUBLISHED", "ACTIVE", "PAUSED", "CLOSED", "ARCHIVED"}

\* elections.py 337: an election is created as a draft
LifeInit ==
  /\ now = 0
  /\ \E avc \in BOOLEAN :
       election = [status |-> "DRAFT", name |-> "n1", votingStartAt |-> 0,
                   votingEndAt |-> MaxClock - 1, allowVoteChange |-> avc,
                   voteChangeDeadline |-> NULL]
  /\ voters = [v \in Voters |-> "PENDING"]
  /\ codes = <<>> /\ tokens = <<>> /\ ballots = <<>> /\ audit = <<>>
  /\ slots = [s \in Slots |-> Idle]
  /\ ops = 0
  /\ mixnet = NoCascade

\* the status is set and the operation audited, in one transaction
SetStatus(new_status, action) ==
  /\ election' = [election EXCEPT !.status = new_status]
  /\ audit' = Append(audit, create_audit_entry(action, "Election", 1, NULL))
  /\ UNCHANGED <<now, voters, codes, tokens, ballots, slots, ops, mixnet>>

\* elections.py 996-1050
publish_election ==
  /\ election.status = "DRAFT"
  /\ SetStatus("PUBLISHED", "election.published")

\* elections.py 1053-1097
activate_election ==
  /\ election.status \in {"PUBLISHED", "PAUSED"}
  /\ SetStatus("ACTIVE", "election.activated")

\* elections.py 1100-1144
close_election ==
  /\ election.status = "ACTIVE"
  /\ SetStatus("CLOSED", "election.closed")

\* update requests: at most one of name, end of the voting window and
\* policies, with or without a status (a valid one or one that is none); an
\* absent text is the empty text, an absent date or policy NULL
UpdatePayloads ==
  { [name |-> n, voting_end_at |-> w, policies |-> pol, status |-> st] :
      n \in {"", "n2"}, w \in {NULL, MaxClock}, pol \in {NULL, 0, 1},
      st \in ElectionStatus \cup {"", "BOGUS"} }

\* the list of updated fields as a number: one bit per field
UpdatedFields(payload) ==
  (IF payload.name # "" THEN 1 ELSE 0) + (IF payload.voting_end_at # NULL THEN 2 ELSE 0)
  + (IF payload.policies # NULL THEN 4 ELSE 0) + (IF payload.status # "" THEN 8 ELSE 0)

\* elections.py 451-528: an ACTIVE or CLOSED election refuses a request
\* without a status; every field the payload carries is written
update_election(payload) ==
  /\ ~(election.status \in {"ACTIVE", "CLOSED"} /\ payload.status = "")
  /\ payload.status # "BOGUS"
  /\ UpdatedFields(payload) > 0
  /\ election' =
       [election EXCEPT
          !.name = IF payload.name # "" THEN payload.name ELSE @,
          !.votingEndAt = IF payload.voting_end_at # NULL THEN payload.voting_end_at ELSE @,
          !.allowVoteChange = IF payload.policies # NULL THEN payload.policies = 1 ELSE @,
          !.status = IF payload.status # "" THEN payload.status ELSE @]
  /\ audit' = Append(audit, create_audit_entry("election.updated", "Election", 1,
                                                UpdatedFields(payload)))
  /\ UNCHANGED <<now, voters, codes, tokens, ballots, slots, ops, mixnet>>

\* a request is accepted while the audit log is short of its bound
LifeAccepting == Len(audit) < MaxChain

LifeNext ==
  \/ LifeAccepting /\ publish_election
  \/ LifeAccepting /\ activate_election
  \/ LifeAccepting /\ close_election
  \/ \E payload \in UpdatePayloads :
       /\ LifeAccepting
       /\ UpdatedFields(payload) % 8 \in {0, 1, 2, 4}
       /\ update_election(payload)

LifeSpec == LifeInit /\ [][LifeNext]_vars

(* ------------------------------- results ------------------------------- *)
\* results.py 138-149: the ballots counted in turnout
CountedBallots == { b \in BallotIds : ballots[b].status \in {"CONFIRMED", "TALLIED"} }

\* the Vote rows: one per selection of every stored ballot
VoteRows == UNION { { <<b, k>> : k \in 1..Len(ballots[b].votes) } : b \in BallotIds }

\* results.py 211-222: the Vote rows of a contest and option, whatever the
\* status of their ballot
vote_count(c, o) ==
  Cardinality({ v \in VoteRows : ballots[v[1]].votes[v[2]] = Sel(c, o) })

\* results.py 105-260: turnout always, the contests only once CLOSED
get_results ==
  [totalVotes |-> Cardinality(CountedBallots),
   shown |-> election.status = "CLOSED",
   contests |-> [c \in Contests |->
                   [options |-> [o \in OptionsOf(c) |-> vote_count(c, o)],
                    totalVotes |->
                      Cardinality({ v \in VoteRows :
                                      /\ ballots[v[1]].votes[v[2]].contestId = c
                                      /\ ballots[v[1]].votes[v[2]].optionId \in OptionsOf(c) })]]]

\* voting and issuance one request at a time, and the closing of the election
ResultsNext ==
  \/ SeqNext
  \/ NoneInFlight /\ close_election

ResultsSpec == Init /\ [][ResultsNext]_vars

(* ------------------------------ properties ----------------------------- *)
\* the ballots cast with any credential ever issued to voter v
BallotsOfVoter(v) ==
  { b \in BallotIds : \E i \in TokenIds : /\ ballots[b].tokenHash = hash_vote_token(i)
                                          /\ tokens[i].voterId = v }

\* the vote-change gate as the election's policy states it at time t
ChangeAllowed(t) ==
  /\ election.allowVoteChange
  /\ election.voteChangeDeadline = NULL \/ t <= election.voteChangeDeadline

\* slot s begins a request_vote_token invocation in this step
StartsTokenRequest(s) == Free(s) /\ slots'[s].op = "token" /\ ops' # ops

\* C1: in an election with allowVoteChange = FALSE no voter ever has more than
\* one accepted ballot, counting the ballots of all credentials issued to it,
\* whatever sequence of token requests, submissions, code consumptions and
\* verification updates was processed.
C1_OneBallotPerVoter ==
  ~election.allowVoteChange => \A v \in Voters : Cardinality(BallotsOfVoter(v)) <= 1

\* C2: every voter holds at most one ISSUED unexpired credential in every
\* reachable state, and a token request made while one exists is refused (409,
\* or 403 when the voter gate refuses first) and creates none.
C2_AtMostOneActive ==
  /\ \A v \in Voters : Cardinality(ActiveTokens(v, now)) <= 1
  /\ \A s \in Slots : slots[s].op = "token" /\ slots[s].pc = "done" /\ slots[s].had
                        => slots[s].code \in {403, 409}

\* C3: the existing-credential check and the insertion are atomic: a token
\* request inserts its credential only in a state where the voter has no
\* ISSUED credential unexpired at the request's time, so two concurrent
\* requests of one voter never both succeed.
C3_AtomicIssue ==
  [][\A s \in Slots :
       (slots[s].op = "token" /\ slots[s].pc = "insert" /\ slots'[s].pc = "done")
         => ActiveTokens(slots[s].voter, slots[s].now) = {}]_vars

C5_LoserGetsConflict ==
  /\ \A i \in TokenIds : Cardinality(BallotsByHash(hash_vote_token(i))) <= 1
  /\ \A s \in Slots : slots[s].op = "submit" /\ slots[s].pc = "done" => slots[s].code # 500

\* C6: submission is all-or-nothing: in every committed state the ballot of a
\* credential hash exists exactly when that credential is USED, and the step
\* that stores the ballot also marks the credential USED and its holder VOTED.
C6_Consistent ==
  \A i \in TokenIds : (BallotsByHash(hash_vote_token(i)) # {}) <=> (tokens[i].status = "USED")

C6_SameStep ==
  \A i \in TokenIds :
    (BallotsByHash(hash_vote_token(i)) = {} /\ BallotsByHash(hash_vote_token(i))' # {})
      => (tokens'[i].status = "USED" /\ voters'[tokens[i].voterId] = "VOTED")

C6_AllOrNothing == [](C6_Consistent) /\ [][C6_SameStep]_vars

C6_Witness ==
  \E i \in TokenIds : BallotsByHash(hash_vote_token(i)) # {} /\ tokens[i].status = "USED"

\* C7: double-vote gate: a token request for a voter that is VOTED gets past
\* the gate only if the election allows vote change and the deadline has not
\* passed; otherwise it is answered 409 and no credential is created.
C7_Gate ==
  \A s \in Slots :
    (StartsTokenRequest(s) /\ slots'[s].voter \in Voters) =>
      LET v == slots'[s].voter
      IN  voters[v] = "VOTED" =>
            IF ChangeAllowed(now)
              THEN slots'[s].code \in {0, 201, 409, 500}
              ELSE slots'[s].pc = "done" /\ slots'[s].code = 409 /\ tokens' = tokens

C7_DoubleVoteGate == [][C7_Gate]_vars

C7_Witness ==
  \E s \in Slots : /\ slots[s].op = "token" /\ slots[s].pc = "done" /\ slots[s].code = 409
                   /\ slots[s].voter \in Voters /\ ~slots[s].had
                   /\ voters[slots[s].voter] = "VOTED" /\ ~ChangeAllowed(now)

\* C8: a token request gets past the voter checks only for a voter that is
\* VERIFIED, or VOTED under an allowed vote change: a PENDING, BLOCKED or
\* REJECTED voter is never issued a credential.
C8_VerifiedOnly ==
  [][\A s \in Slots :
       (StartsTokenRequest(s) /\ slots'[s].pc # "done") =>
         LET v == slots'[s].voter
         IN  \/ voters[v] = "VERIFIED"
             \/ voters[v] = "VOTED" /\ ChangeAllowed(now)]_vars

\* C9: supersession: once the ballot cast with a later credential version is
\* CONFIRMED, the ballot cast with the earlier version of the same lineage is
\* SUPERSEDED, so no two ballots of one lineage are both counted.
BallotOfToken(i) == CHOOSE b \in BallotIds : ballots[b].tokenHash = hash_vote_token(i)

C9_Supersession ==
  \A i, j \in TokenIds :
    (/\ tokens[j].previousTokenId = i
     /\ BallotsByHash(hash_vote_token(i)) # {}
     /\ BallotsByHash(hash_vote_token(j)) # {}
     /\ ballots[BallotOfToken(j)].status = "CONFIRMED")
      => ballots[BallotOfToken(i)].status = "SUPERSEDED"

\* C10: credential lineage: a vote-change token request determines version =
\* (highest version among the voter's earlier credentials) + 1 and the link to
\* that credential, whatever the number of earlier credentials.
C10_Lineage ==
  [][\A s \in Slots :
       (slots[s].op = "token" /\ slots[s].pc = "prev" /\ slots'[s] # slots[s]) =>
         LET S == TokensOf(slots[s].voter)
         IN  /\ slots'[s].pc = "insert"
             /\ \A i \in S : slots'[s].version > tokens[i].version
             /\ \E i \in S : /\ slots'[s].version = tokens[i].version + 1
                             /\ slots'[s].prev = i]_vars

C12_ContestCardinality ==
  \A b \in BallotIds :
    \A j, k \in 1..Len(ballots[b].votes) :
      j # k => ballots[b].votes[j].contestId # ballots[b].votes[k].contestId

\* C13: the anchoring step of a submission never unwinds the committed ballot:
\* whatever anchoring does, the request answers success, the ballot stays
\* stored, its credential stays USED and no voter status changes; when
\* anchoring fails the ballot row is left as it was (PENDING), and a ballot is
\* CONFIRMED only with the ledger transaction of a successful anchoring.
C13_AnchorFailureKeepsBallot ==
  [][/\ \A s \in Slots :
          (slots[s].op = "submit" /\ slots[s].pc = "anchor" /\ slots'[s] # slots[s]) =>
            /\ slots'[s].pc = "done" /\ slots'[s].code = 201
            /\ tokens' = tokens /\ tokens[TokenOf(s)].status = "USED"
            /\ voters' = voters
            /\ Len(ballots') = Len(ballots)
            /\ \A b \in BallotIds :
                  \/ ballots'[b] = ballots[b]
                  \/ /\ b = OwnBallot(s)
                     /\ ballots[b].status = "PENDING"
                     /\ ballots'[b].status = "CONFIRMED"
                     /\ ballots'[b].fabricTxId # NULL
     /\ \A b \in 1..Len(ballots') :
          ballots'[b].status = "CONFIRMED" => ballots'[b].fabricTxId # NULL]_vars

C13_Witness ==
  /\ Len(ballots) = 1 /\ ballots[1].status = "PENDING" /\ ballots[1].fabricTxId = NULL
  /\ \E s \in Slots : slots[s].op = "submit" /\ slots[s].pc = "done" /\ slots[s].code = 201
  /\ \E i \in TokenIds : /\ tokens[i].status = "USED"
                          /\ hash_vote_token(i) = ballots[1].tokenHash
                          /\ voters[tokens[i].voterId] = "VOTED"

\* a stored ballot that is PENDING with no anchoring of it in flight: its
\* anchoring at submission time failed
AnchorFailed(b) ==
  /\ b \in BallotIds /\ ballots[b].status = "PENDING"
  /\ \A s \in Slots : ~(/\ slots[s].op = "submit" /\ slots[s].pc = "anchor"
                         /\ hash_vote_token(slots[s].raw) = ballots[b].tokenHash)

\* C14: anchoring is retried: a ballot whose anchoring failed at submission
\* time is eventually anchored and moves from PENDING to CONFIRMED.
C14_EventuallyAnchored ==
  \A b \in 1..MaxTokens :
    AnchorFailed(b) ~> (b \in BallotIds /\ ballots[b].status = "CONFIRMED")

\* C15: audit chain linkage: every stored audit entry carries as prior hash the
\* hash of the entry appended immediately before it (the empty hash at
\* genesis), and its own hash is H(prior, action, resource, resourceId,
\* timestamp, details), so the chain recomputes from genesis.
C15_ChainLinkage ==
  \A k \in 1..Len(audit) :
    /\ audit[k].previousHash = (IF k = 1 THEN NoHash ELSE audit[k - 1].hash)
    /\ audit[k].hash = create_audit_chain_hash(audit[k].previousHash, audit[k].action,
                                                audit[k].resource, audit[k].resourceId,
                                                audit[k].timestamp, audit[k].details)

\* C16: every step that changes a credential or a ballot (issuance,
\* submission, a ballot status transition) appends exactly one audit entry to
\* the log, and a request answered with an error appends none.
C16_OneAuditEntryPerChange ==
  [][/\ (tokens' # tokens \/ ballots' # ballots) =>
          /\ Len(audit') = Len(audit) + 1
          /\ SubSeq(audit', 1, Len(audit)) = audit
     /\ \A s \in Slots :
          (slots'[s].pc = "done" /\ slots'[s].code >= 400) => audit' = audit]_vars

\* the hash of entry k when the chain is recomputed from genesis out of the
\* stored fields of its entries
RECURSIVE Recomputed(_, _)
Recomputed(chain, k) ==
  IF k = 0 THEN NoHash
  ELSE create_audit_chain_hash(Recomputed(chain, k - 1), chain[k].action, chain[k].resource,
                               chain[k].resourceId, chain[k].timestamp, chain[k].details)

\* the hashed fields of an entry, the values a field may be changed to, and
\* the value of a field as it enters the hash
HashedFields == {"action", "resource", "resourceId", "timestamp", "details"}
FieldValues(f) ==
  CASE f = "action"     -> AuditActions \cup {"tampered"}
    [] f = "resource"   -> {"Election", "tampered"}
    [] f = "resourceId" -> {NULL, 0, 1, 2}
    [] f = "timestamp"  -> 0..(MaxClock + 1)
    [] f = "details"    -> {NULL, 0, 1, 2}
Hashed(f, v) == IF f \in {"resourceId", "details"} THEN OrEmpty(v) ELSE v
Tamper(chain, i, f, w) == [chain EXCEPT ![i] = [@ EXCEPT ![f] = w]]

C18_Unlinkable ==
  \A b \in BallotIds : \A v \in Voters : b \notin BallotsOfVoter(v)

\* C19: on every submission path (web submission, paper-ballot approval) the
\* receipt code returned is the first 16 hex characters, upper-cased, of the
\* commitment hash of the ballot.
C19_ReceiptIsCommitmentPrefix ==
  \A b \in BallotIds : ballots[b].receiptCode = first16_upper(ballots[b].commitmentHash)

\* the four components a commitment is computed from
CommitmentInputs(b) ==
  <<ballots[b].encryptedBallot, ballots[b].commitmentSalt, ballots[b].electionId,
    ballots[b].timestamp>>

\* C20: commitment determinism and sensitivity: ballots with identical
\* (ciphertext, salt, electionId, timestamp) have the identical commitment,
\* and ballots whose tuples differ in any component have different
\* commitments.
C20_CommitmentInjective ==
  \A i, j \in BallotIds :
    (CommitmentInputs(i) = CommitmentInputs(j))
      <=> (ballots[i].commitmentHash = ballots[j].commitmentHash)

C20_Witness ==
  /\ Len(ballots) >= 2
  /\ ballots[1].encryptedBallot # ballots[2].encryptedBallot
  /\ ballots[1].encryptedBallot \o ballots[1].commitmentSalt
       = ballots[2].encryptedBallot \o ballots[2].commitmentSalt
  /\ ballots[1].electionId = ballots[2].electionId
  /\ ballots[1].timestamp = ballots[2].timestamp

C22_VerifyBallot ==
  [][slots'[1] # slots[1] =>
       LET r == slots'[1]
           S == { b \in BallotIds : ballots[b].commitmentHash = r.hash }
       IN  /\ r.scope = <<>> => (r.found <=> S # {})
           /\ r.found => \E b \in S : /\ r.status = ballots[b].status
                                       /\ r.fabricTxId = ballots[b].fabricTxId
                                       /\ r.fabricBlockNum = ballots[b].fabricBlockNum
           /\ r.verified => (r.found /\ r.fabricTxId # NULL)]_vars

\* the multiset of the ballot ids of a list of encrypted ballots
BallotIdBag(bs) == BagOf([i \in 1..Len(bs) |-> bs[i].ballot_id])

\* C23: mix-net conservation: every stage of a cascade run hands on exactly as
\* many ballots as it was given, with the same multiset of ballot ids, so the
\* list is a permutation of the original input after every stage.
C23_Conservation ==
  /\ [][Len(mixnet'.proofs) = Len(mixnet.proofs) + 1 =>
          /\ Len(mixnet'.current) = Len(mixnet.current)
          /\ BallotIdBag(mixnet'.current) = BallotIdBag(mixnet.current)]_vars
  /\ [](mixnet.pc = "mixing" =>
          /\ Len(mixnet.current) = Len(mixnet.input)
          /\ BallotIdBag(mixnet.current) = BallotIdBag(mixnet.input))

C23_Witness ==
  /\ mixnet.pc = "mixing" /\ Len(mixnet.proofs) = NumNodes
  /\ Len(mixnet.input) = 2
  /\ mixnet.current[1].ballot_id # mixnet.input[1].ballot_id

\* C24: a verifier accepts no cascade result in which a ballot was added,
\* removed or duplicated relative to the original input: an accepted result
\* holds exactly the ballot ids of the input, also when its list of mixed
\* ballots was altered after the last stage without changing its length.
C24_VerifyRejectsAltered ==
  mixnet.verdict = "accepted" =>
    BallotIdBag(mixnet.result.mixed_ballots) = BallotIdBag(mixnet.input)

\* C25: the cascade runs the shuffle step once per node, in node order, each
\* node on the output of the node before it: in the returned result the first
\* proof starts at the hash of the original input, every later proof starts
\* at the output hash of the proof before it, and the last proof ends at the
\* hash of the mixed ballots.
C25_CascadeOrder ==
  /\ [][Len(mixnet'.proofs) = Len(mixnet.proofs) + 1 =>
          LET k == Len(mixnet'.proofs)
          IN  /\ k <= mixnet.nodes
              /\ mixnet'.proofs[k].node_id = mix_nodes[k].node_id
              /\ mixnet'.proofs[k].input_hash = hash_ballot_list(mixnet.current)
              /\ mixnet'.proofs[k].output_hash = hash_ballot_list(mixnet'.current)]_vars
  /\ []((mixnet.pc = "done" /\ ~mixnet.tampered /\ mixnet.nodes > 0) =>
          LET proofs == mixnet.result.shuffle_proofs
          IN  /\ Len(proofs) = NumNodes
              /\ proofs[1].input_hash = hash_ballot_list(mixnet.input)
              /\ \A i \in 1..(NumNodes - 1) : proofs[i + 1].input_hash = proofs[i].output_hash
              /\ proofs[NumNodes].output_hash = hash_ballot_list(mixnet.result.mixed_ballots))

C25_Witness ==
  /\ mixnet.pc = "done" /\ ~mixnet.tampered /\ mixnet.nodes = NumNodes
  /\ Len(mixnet.input) = 2
  /\ mixnet.result.shuffle_proofs[1].output_hash # mixnet.result.shuffle_proofs[1].input_hash

\* the calls of threshold_decrypt made so far
DecryptCalls == { ballots[i] : i \in 1..Len(ballots) }
\* a list of shares the nodes produced, none of them twice
AllGenuine(shares) ==
  /\ \A i \in 1..Len(shares) : shares[i] \in GenuineShares
  /\ \A i, j \in 1..Len(shares) : shares[i] = shares[j] => i = j

\* the list of shares holds the share s
Holds(shares, s) == \E i \in 1..Len(shares) : shares[i] = s

\* C26: re-encryption does not change the plaintext: threshold-decrypting the
\* ciphertext that leaves the cascade yields the selections that were
\* encrypted for the mix.
C26_ReencryptionKeepsPlaintext ==
  \A call \in DecryptCalls :
    (call.stage = "mixed" /\ AllGenuine(call.shares) /\ Len(call.shares) >= threshold) =>
      /\ call.outcome.status = "ok"
      /\ call.outcome.plaintext_hash = call.ballot_json

\* C27: threshold decryption with fewer than k shares fails with an error and
\* returns no plaintext; a decryption output exists only when at least k
\* shares were supplied.
C27_FewerSharesFail ==
  \A call \in DecryptCalls :
    /\ Len(call.shares) < threshold =>
         (call.outcome.status = "error" /\ "plaintext_hash" \notin DOMAIN call.outcome)
    /\ call.outcome.status = "ok" => Len(call.shares) >= threshold

C27_Witness ==
  \E call \in DecryptCalls :
    /\ Len(call.shares) = threshold - 1 /\ AllGenuine(call.shares)
    /\ call.outcome.status = "error"

\* C28: threshold decryption given k shares of which one is not a share a mix
\* node produced, or repeats another supplied share, fails with an error
\* instead of returning a plaintext.
C28_InvalidShareFails ==
  \A call \in DecryptCalls :
    (Len(call.shares) = threshold /\ ~AllGenuine(call.shares)) =>
      call.outcome.status = "error"

\* C29: share combination is deterministic given the same k shares:
\* threshold_decrypt of one ciphertext returns the same plaintext whenever it
\* is given the same k shares, in whatever order and with whatever further
\* shares of the nodes.
C29_CombinationDeterministic ==
  \A call \in DecryptCalls :
    (AllGenuine(call.shares) /\ Len(call.shares) >= threshold) =>
      \A other \in ShareLists :
        ( /\ AllGenuine(other)
          /\ \E K \in SUBSET GenuineShares :
                /\ Cardinality(K) = threshold
                /\ \A s \in K : Holds(call.shares, s) /\ Holds(other, s) ) =>
          threshold_decrypt(call.encrypted_ballot, other) = call.outcome

\* C30: a ballot validity proof generated for (root r, selections s, election
\* e) has the public inputs [r, commitment(s), H(e)] and nothing else, and
\* verifying it against (r2, c2, e2) returns true exactly when r2 = r,
\* c2 = commitment(s) and e2 = e.
C30_PublicInputBinding ==
  \A i \in 1..Len(ballots) :
    LET call == ballots[i]
    IN  call.proof.status = "ok" =>
          /\ call.proof.publicInputs =
               <<call.root, sha256(json_dumps(call.selections)), sha256_hex(call.electionId)>>
          /\ call.verified <=>
               ( /\ call.root2 = call.root
                 /\ call.commitment2 = sha256(json_dumps(call.selections))
                 /\ call.electionId2 = call.electionId )

C30_Witness ==
  /\ Len(ballots) = 1
  /\ ballots[1].proof.status = "ok" /\ ballots[1].verified
  /\ ballots[1].root # "h(v1)" /\ ballots[1].selections # <<>>

\* the hash is a leaf under the root: some Merkle path leads from it to the root
LeafUnder(leaf, root) == \E path \in MerklePaths : verify_merkle_path(leaf, path, root)

\* C31: the verifier returns true only for a proof produced for a participant
\* hash that is a leaf under the allowlist root; a proof object put together
\* by a party that is on no allowlist does not verify.
C31_EligibilitySoundness ==
  /\ \A i \in 1..Len(ballots) : ballots[i].verified => LeafUnder("h(v1)", ballots[i].root)
  /\ slots[1] # Idle =>
       (slots[1].verified => LeafUnder(slots[1].voter_hash, slots[1].root))

\* C32: a tally proof that the verifier accepts for (ballots root, tally
\* commitment, election, ballot count) exists only if the committed tally was
\* derived from exactly the ballots under that root: a tally that does not
\* match the ballots gets no accepting proof.
C32_TallySoundness ==
  \A i \in 1..Len(ballots) :
    ballots[i].verified =>
      /\ ballots[i].ballot_count = Len(ballots[i].encrypted_ballots)
      /\ ballots[i].tally_result = count_votes(ballots[i].encrypted_ballots)

\* the status changes the lifecycle allows
ValidTransitions ==
  { <<"DRAFT", "PUBLISHED">>, <<"PUBLISHED", "ACTIVE">>, <<"PUBLISHED", "DRAFT">>,
    <<"ACTIVE", "PAUSED">>, <<"ACTIVE", "CLOSED">>, <<"PAUSED", "ACTIVE">>,
    <<"PAUSED", "CLOSED">>, <<"CLOSED", "ARCHIVED">> }

\* C33: the election status changes only along the valid transitions; no
\* operation moves a CLOSED or ARCHIVED election back to ACTIVE.
C33_ValidTransitions ==
  [][election'.status # election.status =>
       <<election.status, election'.status>> \in ValidTransitions]_vars

\* C39: the configuration of an ACTIVE or CLOSED election is frozen: no
\* request changes its name, voting window or vote-change policy, whether
\* or not the request also carries a status change.
C39_ConfigFrozen ==
  [][election.status \in {"ACTIVE", "CLOSED"} =>
       /\ election'.name = election.name
       /\ election'.votingStartAt = election.votingStartAt
       /\ election'.votingEndAt = election.votingEndAt
       /\ election'.allowVoteChange = election.allowVoteChange]_vars

\* C34: the verifier returns true only if the result carries one shuffle proof
\* for each of the n mix nodes: a cascade with a skipped stage is rejected,
\* and so is the result of a cascade run with no initialized nodes (no
\* proofs, the mixed ballots being the input in its order).
C34_EveryStageProved ==
  mixnet.verdict = "accepted" => Len(mixnet.result.shuffle_proofs) = NumNodes

\* C35: expiry is judged alike by issuance and submission: at every clock
\* value, a credential that request_vote_token treats as no longer active
\* (and so issues a new one next to) is rejected by submit_ballot as expired,
\* also at the instant now = expiresAt.
C35_ExpiryConsistent ==
  \A i \in TokenIds :
    (tokens[i].status = "ISSUED" /\ i \notin ActiveTokens(tokens[i].voterId, now)) =>
      SubmitTokenCheck(tokens[i], now) = 401

C37_NoFork ==
  \A i, j \in 1..Len(audit) : audit[i].previousHash = audit[j].previousHash => i = j

\* C38: in the published results of a CLOSED election the per-option vote
\* counts hold only the votes of ballots counted in turnout (CONFIRMED or
\* TALLIED), so the total of the single-choice contest never exceeds the
\* number of counted ballots.
C38_OnlyCountedBallots ==
  get_results.shown =>
    \A c \in Contests :
      /\ \A o \in OptionsOf(c) :
           get_results.contests[c].options[o] =
             Cardinality({ v \in VoteRows : /\ v[1] \in CountedBallots
                                            /\ ballots[v[1]].votes[v[2]] = Sel(c, o) })
      /\ get_results.contests[c].totalVotes <= get_results.totalVotes

=============================================================================
